---- MODULE Spec2Model ----
(***************************************************************************)
(* Model of the SDP parser (ddimaria/rust-sdp-parser).                     *)
(*                                                                         *)
(* Text is modelled as a sequence of one-character strings, so that the    *)
(* splitting, trimming and number parsing of the source are computed and   *)
(* not assumed.  An unsigned number is kept as its canonical decimal       *)
(* numeral (digits without leading zeros), which is exact for any width.   *)
(***************************************************************************)
EXTENDS Integers, Sequences, FiniteSets, TLC

(***************************************************************************)
(* Option and Result                                                       *)
(***************************************************************************)
None == <<>>
Some(x) == <<x>>
is_some(o) == o # <<>>
unwrap_or(o, d) == IF o = <<>> THEN d ELSE o[1]

\* Error::Parse(String): the message is kept as its kind and its arguments.
ParseError(kind, arg, index) == [kind |-> kind, arg |-> arg, index |-> index]
NoError == ParseError("none", <<>>, 0)
MissingField(index) == ParseError("MissingField", <<>>, index)
InvalidNumber(item) == ParseError("InvalidNumber", item, 0)
UnsupportedLineType(key) == ParseError("UnsupportedLineType", key, 0)
AttributeBeforeMedia == ParseError("AttributeBeforeMedia", <<>>, 0)
UnsupportedMediaAttribute(attribute) == ParseError("UnsupportedMediaAttribute", attribute, 0)

Ok(v) == [ok |-> TRUE, val |-> v, err |-> NoError]
Err(e) == [ok |-> FALSE, val |-> <<>>, err |-> e]

\* A chain of `?`: the first failed result is returned, else Ok(v).
Try(results, v) ==
    IF \E i \in 1..Len(results) : ~results[i].ok
    THEN results[CHOOSE i \in 1..Len(results) :
                     ~results[i].ok /\ \A j \in 1..(i - 1) : results[j].ok]
    ELSE Ok(v)

(***************************************************************************)
(* str: find, split, splitn(2, _), trim, lines                             *)
(***************************************************************************)
\* Index of the first occurrence of character d in s, 0 when absent.
RECURSIVE FindFrom(_, _, _)
FindFrom(s, d, i) ==
    IF i > Len(s) THEN 0 ELSE IF s[i] = d THEN i ELSE FindFrom(s, d, i + 1)

Find(s, d) == FindFrom(s, d, 1)

RECURSIVE Split(_, _)
Split(s, d) ==
    LET i == Find(s, d)
    IN  IF i = 0 THEN <<s>>
        ELSE <<SubSeq(s, 1, i - 1)>> \o Split(SubSeq(s, i + 1, Len(s)), d)

\* splitn(2, d) with a fault: split(d), which cuts at every d.
SplitN2_every(s, d) ==
    LET split == Split(s, d)
    IN  IF Len(split) = 1 THEN split ELSE <<split[1], split[2]>>

SplitN2(s, d) ==
    LET i == Find(s, d)
    IN  IF i = 0 THEN <<s>>
        ELSE <<SubSeq(s, 1, i - 1), SubSeq(s, i + 1, Len(s))>>

\* Iterator::next on a split: the i-th call.
Nth(split, i) == IF i <= Len(split) THEN Some(split[i]) ELSE None

WhiteSpace == {" ", "\t", "\n", "\r", "\f"}

RECURSIVE TrimStart(_)
TrimStart(s) ==
    IF s # <<>> /\ Head(s) \in WhiteSpace THEN TrimStart(Tail(s)) ELSE s

RECURSIVE TrimEnd(_)
TrimEnd(s) ==
    IF s # <<>> /\ s[Len(s)] \in WhiteSpace
    THEN TrimEnd(SubSeq(s, 1, Len(s) - 1)) ELSE s

Trim(s) == TrimEnd(TrimStart(s))

\* str::lines: lines end at "\n" or "\r\n", the terminator is not part of
\* the line, and a final empty line is not a line.
StripCR(s) ==
    IF s # <<>> /\ s[Len(s)] = "\r" THEN SubSeq(s, 1, Len(s) - 1) ELSE s

RECURSIVE StrLines(_)
StrLines(s) ==
    IF s = <<>> THEN <<>>
    ELSE LET i == Find(s, "\n")
         IN  IF i = 0 THEN <<s>>
             ELSE <<StripCR(SubSeq(s, 1, i - 1))>>
                      \o StrLines(SubSeq(s, i + 1, Len(s)))

(***************************************************************************)
(* utils.rs                                                                *)
(***************************************************************************)
Digits == <<"0", "1", "2", "3", "4", "5", "6", "7", "8", "9">>
IsDigit(c) == \E i \in 1..10 : Digits[i] = c
DigitVal(c) == (CHOOSE i \in 1..10 : Digits[i] = c) - 1

U32_MAX == <<"4", "2", "9", "4", "9", "6", "7", "2", "9", "5">>
U64_MAX == <<"1", "8", "4", "4", "6", "7", "4", "4", "0", "7", "3", "7", "0", "9", "5", "5", "1", "6", "1", "5">>

RECURSIVE StripZeros(_)
StripZeros(ds) ==
    IF Len(ds) > 1 /\ Head(ds) = "0" THEN StripZeros(Tail(ds)) ELSE ds

\* a <= b for canonical numerals
NumLeq(a, b) ==
    \/ Len(a) < Len(b)
    \/ /\ Len(a) = Len(b)
       /\ \/ a = b
          \/ \E i \in 1..Len(a) :
                /\ DigitVal(a[i]) < DigitVal(b[i])
                /\ \A j \in 1..(i - 1) : a[j] = b[j]

\* from_str with a fault: a value over the range is cut down to the largest
\* value of the field instead of being refused.
FromStr_saturating(item, max) ==
    LET ds == IF item # <<>> /\ Head(item) = "+" THEN Tail(item) ELSE item
    IN  IF ds = <<>> \/ \E i \in 1..Len(ds) : ~IsDigit(ds[i])
        THEN None
        ELSE IF NumLeq(StripZeros(ds), max) THEN Some(StripZeros(ds)) ELSE Some(max)

\* <uN as FromStr>::from_str: an optional '+', then one or more digits, and
\* the value must fit; anything else is an error.
FromStr(item, max) ==
    LET ds == IF item # <<>> /\ Head(item) = "+" THEN Tail(item) ELSE item
    IN  IF ds = <<>> \/ \E i \in 1..Len(ds) : ~IsDigit(ds[i])
        THEN None
        ELSE IF NumLeq(StripZeros(ds), max) THEN Some(StripZeros(ds)) ELSE None

\* parse_str with a fault: the position reported counts from 0.
parse_str_zero_based(value, index) ==
    IF is_some(value) THEN Ok(value[1]) ELSE Err(MissingField(index - 1))

parse_str(value, index) ==
    IF is_some(value) THEN Ok(value[1]) ELSE Err(MissingField(index))

parse_number(value, index, max) ==
    LET item == parse_str(value, index)
    IN  IF ~item.ok THEN item
        ELSE LET result == FromStr(item.val, max)
             IN  IF is_some(result) THEN Ok(result[1])
                 ELSE Err(InvalidNumber(item.val))

Zero == <<"0">>
(***************************************************************************)
(* origin.rs, connection.rs, time.rs, fingerprint.rs                       *)
(***************************************************************************)
Origin_default ==
    [username |-> <<>>, session_id |-> Zero, session_version |-> Zero,
     network_type |-> <<>>, ip_type |-> <<>>, ip_address |-> <<>>]

Origin_new(value) ==
    LET split == Split(value, " ")
        username == parse_str(Nth(split, 1), 1)
        session_id == parse_number(Nth(split, 2), 2, U64_MAX)
        session_version == parse_number(Nth(split, 3), 3, U64_MAX)
        network_type == parse_str(Nth(split, 4), 4)
        ip_type == parse_str(Nth(split, 5), 5)
        ip_address == parse_str(Nth(split, 6), 6)
    IN  Try(<<username, session_id, session_version, network_type, ip_type,
              ip_address>>,
            [username |-> username.val, session_id |-> session_id.val,
             session_version |-> session_version.val,
             network_type |-> network_type.val, ip_type |-> ip_type.val,
             ip_address |-> ip_address.val])

Connection_default ==
    [network_type |-> <<>>, ip_type |-> <<>>, ip_address |-> <<>>]

Connection_new(value) ==
    LET split == Split(value, " ")
        network_type == parse_str(Nth(split, 1), 1)
        ip_type == parse_str(Nth(split, 2), 2)
        ip_address == parse_str(Nth(split, 3), 3)
    IN  Try(<<network_type, ip_type, ip_address>>,
            [network_type |-> network_type.val, ip_type |-> ip_type.val,
             ip_address |-> ip_address.val])

Time_default == [start_time |-> Zero, stop_time |-> Zero, bounded |-> FALSE]

\* Time::new with a fault: bounded needs both times to be non-zero.
Time_new_both(value) ==
    LET split == Split(value, " ")
        start_time == parse_number(Nth(split, 1), 1, U64_MAX)
        stop_time == parse_number(Nth(split, 2), 2, U64_MAX)
    IN  Try(<<start_time, stop_time>>,
            [start_time |-> start_time.val, stop_time |-> stop_time.val,
             bounded |-> ~(start_time.val = Zero) /\ ~(stop_time.val = Zero)])

Time_new(value) ==
    LET split == Split(value, " ")
        start_time == parse_number(Nth(split, 1), 1, U64_MAX)
        stop_time == parse_number(Nth(split, 2), 2, U64_MAX)
    IN  Try(<<start_time, stop_time>>,
            [start_time |-> start_time.val, stop_time |-> stop_time.val,
             bounded |-> ~(start_time.val = Zero /\ stop_time.val = Zero)])

Fingerprint_default == [type |-> <<>>, hash |-> <<>>]

Fingerprint_new(value) ==
    LET split == Split(value, " ")
        type == parse_str(Nth(split, 1), 1)
        hash == parse_str(Nth(split, 2), 2)
    IN  Try(<<type, hash>>, [type |-> type.val, hash |-> hash.val])

(***************************************************************************)
(* media.rs                                                                *)
(***************************************************************************)
\* Candidate::new with a fault: no item is dropped before the type.
Candidate_new_noskip(value) ==
    LET split == Split(value, " ")
        component == parse_number(Nth(split, 1), 1, U64_MAX)
        foundation == parse_str(Nth(split, 2), 2)
        transport == parse_str(Nth(split, 3), 3)
        priority == parse_number(Nth(split, 4), 4, U64_MAX)
        ip == parse_str(Nth(split, 5), 5)
        port == parse_number(Nth(split, 6), 6, U64_MAX)
        type == parse_str(Nth(split, 7), 7)
    IN  Try(<<component, foundation, transport, priority, ip, port, type>>,
            [component |-> component.val, foundation |-> foundation.val,
             transport |-> transport.val, priority |-> priority.val,
             ip |-> ip.val, port |-> port.val, type |-> type.val])

Candidate_new(value) ==
    LET split == Split(value, " ")
        component == parse_number(Nth(split, 1), 1, U64_MAX)
        foundation == parse_str(Nth(split, 2), 2)
        transport == parse_str(Nth(split, 3), 3)
        priority == parse_number(Nth(split, 4), 4, U64_MAX)
        ip == parse_str(Nth(split, 5), 5)
        port == parse_number(Nth(split, 6), 6, U64_MAX)
        \* the 7th item ("typ") is taken and dropped
        type == parse_str(Nth(split, 8), 7)
    IN  Try(<<component, foundation, transport, priority, ip, port, type>>,
            [component |-> component.val, foundation |-> foundation.val,
             transport |-> transport.val, priority |-> priority.val,
             ip |-> ip.val, port |-> port.val, type |-> type.val])

Fmtp_new(value) ==
    LET split == SplitN2(value, " ")
        payload == parse_number(Nth(split, 1), 1, U64_MAX)
        config == parse_str(Nth(split, 2), 2)
    IN  Try(<<payload, config>>,
            [payload |-> payload.val, config |-> config.val])

\* Rtpmap::new with a fault: the rate is the last item of codec/rate/channels.
Rtpmap_new_last(value) ==
    LET split == Split(value, " ")
        payload == parse_str(Nth(split, 1), 1)
        second == parse_str(Nth(split, 2), 2)
        split2 == IF second.ok THEN Split(second.val, "/") ELSE <<>>
        codec == parse_str(Nth(split2, 1), 2)
        rate == parse_number(IF Len(split2) >= 2 THEN Some(split2[Len(split2)])
                             ELSE None, 3, U64_MAX)
    IN  Try(<<payload, second, codec, rate>>,
            [codec |-> codec.val, payload |-> payload.val, rate |-> rate.val])

Rtpmap_new(value) ==
    LET split == Split(value, " ")
        payload == parse_str(Nth(split, 1), 1)
        second == parse_str(Nth(split, 2), 2)
        split2 == IF second.ok THEN Split(second.val, "/") ELSE <<>>
        codec == parse_str(Nth(split2, 1), 2)
        rate == parse_number(Nth(split2, 2), 3, U64_MAX)
    IN  Try(<<payload, second, codec, rate>>,
            [codec |-> codec.val, payload |-> payload.val, rate |-> rate.val])

\* RtcpFb::new with a fault: the type is everything after the payload.
RtcpFb_new_rest(value) ==
    LET split == SplitN2(value, " ")
        payload == parse_str(Nth(split, 1), 1)
        type == parse_str(Nth(split, 2), 2)
    IN  Try(<<payload, type>>, [payload |-> payload.val, type |-> type.val])

RtcpFb_new(value) ==
    LET split == Split(value, " ")
        payload == parse_str(Nth(split, 1), 1)
        type == parse_str(Nth(split, 2), 2)
    IN  Try(<<payload, type>>, [payload |-> payload.val, type |-> type.val])

\* Ssrc::new with a fault: the value is always present, empty when the
\* second item has no ':'.
Ssrc_new_always(value) ==
    LET split == Split(value, " ")
        id == parse_number(Nth(split, 1), 1, U64_MAX)
        second == parse_str(Nth(split, 2), 2)
        split2 == IF second.ok THEN Split(second.val, ":") ELSE <<>>
        attribute == parse_str(Nth(split2, 1), 2)
        value2 == Some(unwrap_or(Nth(split2, 2), <<>>))
    IN  Try(<<id, second, attribute>>,
            [id |-> id.val, attribute |-> attribute.val, value |-> value2])

Ssrc_new(value) ==
    LET split == Split(value, " ")
        id == parse_number(Nth(split, 1), 1, U64_MAX)
        second == parse_str(Nth(split, 2), 2)
        split2 == IF second.ok THEN Split(second.val, ":") ELSE <<>>
        attribute == parse_str(Nth(split2, 1), 2)
        value2 == Nth(split2, 2)
    IN  Try(<<id, second, attribute>>,
            [id |-> id.val, attribute |-> attribute.val, value |-> value2])

Media_new(value) ==
    LET split == Split(value, " ")
        type == parse_str(Nth(split, 1), 1)
        port == parse_number(Nth(split, 2), 2, U64_MAX)
        protocol == parse_str(Nth(split, 3), 3)
        payloads == parse_str(Nth(split, 4), 4)
    IN  Try(<<type, port, protocol, payloads>>,
            [type |-> type.val, port |-> port.val, protocol |-> protocol.val,
             payloads |-> payloads.val, candidates |-> <<>>,
             direction |-> <<>>, fmtp |-> <<>>, ptime |-> Zero,
             rtpmap |-> <<>>, rtc_fb |-> <<>>, ssrc |-> <<>>])

\* set_value! with a fault: a field of the document that already holds a value
\* keeps it (the first line wins).
set_value_first(self, field, value) ==
    IF ~value.ok THEN [self |-> self, res |-> value]
    ELSE IF field \in {"version", "session_name", "origin", "time", "connection"}
              /\ self[field] # [version |-> Zero, session_name |-> <<>>,
                                 origin |-> Origin_default, time |-> Time_default,
                                 connection |-> Connection_default][field]
    THEN [self |-> self, res |-> Ok(<<>>)]
    ELSE [self |-> [self EXCEPT ![field] = value.val], res |-> Ok(<<>>)]

\* set_value!: assign the field when the value is Ok, else return its error.
\* Both macros give the pair of the updated record and the Result.
set_value(self, field, value) ==
    IF value.ok THEN [self |-> [self EXCEPT ![field] = value.val], res |-> Ok(<<>>)]
    ELSE [self |-> self, res |-> value]

\* push_value! with a fault: a value equal to one already held is not pushed.
push_value_dedup(self, field, value) ==
    IF value.ok
    THEN [self |-> IF \E i \in 1..Len(self[field]) : self[field][i] = value.val
                   THEN self
                   ELSE [self EXCEPT ![field] = Append(@, value.val)],
          res |-> Ok(<<>>)]
    ELSE [self |-> self, res |-> value]

\* push_value!: push onto the field when the value is Ok.
push_value(self, field, value) ==
    IF value.ok
    THEN [self |-> [self EXCEPT ![field] = Append(@, value.val)], res |-> Ok(<<>>)]
    ELSE [self |-> self, res |-> value]

K_ptime == <<"p", "t", "i", "m", "e">>
K_rtpmap == <<"r", "t", "p", "m", "a", "p">>
K_candidate == <<"c", "a", "n", "d", "i", "d", "a", "t", "e">>
K_fmtp == <<"f", "m", "t", "p">>
K_rtcp_fb == <<"r", "t", "c", "p", "-", "f", "b">>
K_ssrc == <<"s", "s", "r", "c">>
K_direction == <<"d", "i", "r", "e", "c", "t", "i", "o", "n">>
K_ice_ufrag == <<"i", "c", "e", "-", "u", "f", "r", "a", "g">>
K_ice_pwd == <<"i", "c", "e", "-", "p", "w", "d">>
K_fingerprint == <<"f", "i", "n", "g", "e", "r", "p", "r", "i", "n", "t">>

\* Media::parse_attribute with a fault: only the four directions of RFC 4566
\* are taken as a direction.
Media_parse_attribute_strict(self, attribute, value) ==
    CASE attribute = K_ptime ->
           set_value(self, "ptime", parse_number(Some(value), 1, U64_MAX))
      [] attribute = K_rtpmap -> push_value(self, "rtpmap", Rtpmap_new(value))
      [] attribute = K_candidate ->
           push_value(self, "candidates", Candidate_new(value))
      [] attribute = K_fmtp -> push_value(self, "fmtp", Fmtp_new(value))
      [] attribute = K_rtcp_fb -> push_value(self, "rtc_fb", RtcpFb_new(value))
      [] attribute = K_ssrc -> push_value(self, "ssrc", Ssrc_new(value))
      [] attribute = K_direction
           /\ value \in {<<"s", "e", "n", "d", "r", "e", "c", "v">>, <<"s", "e", "n", "d", "o", "n", "l", "y">>, <<"r", "e", "c", "v", "o", "n", "l", "y">>, <<"i", "n", "a", "c", "t", "i", "v", "e">>} ->
           set_value(self, "direction", Ok(value))
      [] OTHER -> [self |-> self, res |-> Err(UnsupportedMediaAttribute(attribute))]

Media_parse_attribute(self, attribute, value) ==
    CASE attribute = K_ptime ->
           set_value(self, "ptime", parse_number(Some(value), 1, U64_MAX))
      [] attribute = K_rtpmap -> push_value(self, "rtpmap", Rtpmap_new(value))
      [] attribute = K_candidate ->
           push_value(self, "candidates", Candidate_new(value))
      [] attribute = K_fmtp -> push_value(self, "fmtp", Fmtp_new(value))
      [] attribute = K_rtcp_fb -> push_value(self, "rtc_fb", RtcpFb_new(value))
      [] attribute = K_ssrc -> push_value(self, "ssrc", Ssrc_new(value))
      [] attribute = K_direction -> set_value(self, "direction", Ok(value))
      [] OTHER -> [self |-> self, res |-> Err(UnsupportedMediaAttribute(attribute))]
(***************************************************************************)
(* sdp.rs                                                                  *)
(***************************************************************************)
Sdp_default ==
    [version |-> Zero, session_name |-> <<>>, ice_ufrag |-> <<>>,
     ice_pwd |-> <<>>, fingerprint |-> Fingerprint_default,
     origin |-> Origin_default, time |-> Time_default,
     connection |-> Connection_default, media |-> <<>>,
     current_media |-> None]

\* What one call on the document can end in: the document as the call left
\* it, the Result it returned, or a panic that unwinds out of parse.
Returned(self, res) == [self |-> self, res |-> res, panic |-> FALSE]
Panicked(self) == [self |-> self, res |-> Err(NoError), panic |-> TRUE]

\* parse_media with a fault: the new block replaces the sequence instead of
\* being appended to it.
parse_media_overwrite(self, value) ==
    LET count == unwrap_or(self.current_media, 0)
        self1 == [self EXCEPT !.current_media = Some(count + 1)]
        media == Media_new(value)
    IN  IF media.ok
        THEN {Returned([self1 EXCEPT !.media = <<media.val>>], Ok(<<>>))}
        ELSE {Returned(self1, media)}

parse_media(self, value) ==
    LET count == unwrap_or(self.current_media, 0)
        self1 == [self EXCEPT !.current_media = Some(count + 1)]
        media == Media_new(value)
    IN  IF media.ok
        THEN {Returned([self1 EXCEPT !.media = Append(@, media.val)], Ok(<<>>))}
        ELSE {Returned(self1, media)}

\* parse_media_attribute with a fault: the target is the first block, not the
\* block at count - 1.
parse_media_attribute_first(self, attribute, value) ==
    LET count == unwrap_or(self.current_media, 0)
    IN  IF count = 0
        THEN {Panicked(self), Returned(self, Err(AttributeBeforeMedia))}
        ELSE IF count - 1 < Len(self.media)
        THEN LET r == Media_parse_attribute(self.media[1], attribute, value)
             IN  {Returned([self EXCEPT !.media[1] = r.self], r.res)}
        ELSE {Returned(self, Err(AttributeBeforeMedia))}

\* `count - 1` on usize with count = 0 panics in a build with overflow
\* checks and wraps to usize::MAX in one without; get_mut(usize::MAX) is
\* None.  With count > 0, get_mut(count - 1) is the block at that index.
parse_media_attribute(self, attribute, value) ==
    LET count == unwrap_or(self.current_media, 0)
    IN  IF count = 0
        THEN {Panicked(self), Returned(self, Err(AttributeBeforeMedia))}
        ELSE IF count - 1 < Len(self.media)
        THEN LET r == Media_parse_attribute(self.media[count], attribute, value)
             IN  {Returned([self EXCEPT !.media[count] = r.self], r.res)}
        ELSE {Returned(self, Err(AttributeBeforeMedia))}

\* parse_attribute with a fault: once a media block is open, every keyed
\* attribute goes to the block.
parse_attribute_scoped(self, value) ==
    LET split == SplitN2(value, ":")
    IN  IF Len(split) = 1
        THEN parse_media_attribute(self, K_direction, split[1])
        ELSE CASE split[1] = K_ice_ufrag /\ ~is_some(self.current_media) ->
                    {Returned([self EXCEPT !.ice_ufrag = split[2]], Ok(<<>>))}
               [] split[1] = K_ice_pwd /\ ~is_some(self.current_media) ->
                    {Returned([self EXCEPT !.ice_pwd = split[2]], Ok(<<>>))}
               [] split[1] = K_fingerprint /\ ~is_some(self.current_media) ->
                    LET f == Fingerprint_new(split[2])
                    IN  IF f.ok
                        THEN {Returned([self EXCEPT !.fingerprint = f.val], Ok(<<>>))}
                        ELSE {Returned(self, f)}
               [] OTHER -> parse_media_attribute(self, split[1], split[2])

parse_attribute(self, value) ==
    LET split == SplitN2(value, ":")
    IN  IF Len(split) = 1
        THEN parse_media_attribute(self, K_direction, split[1])
        ELSE CASE split[1] = K_ice_ufrag ->
                    {Returned([self EXCEPT !.ice_ufrag = split[2]], Ok(<<>>))}
               [] split[1] = K_ice_pwd ->
                    {Returned([self EXCEPT !.ice_pwd = split[2]], Ok(<<>>))}
               [] split[1] = K_fingerprint ->
                    LET f == Fingerprint_new(split[2])
                    IN  IF f.ok
                        THEN {Returned([self EXCEPT !.fingerprint = f.val], Ok(<<>>))}
                        ELSE {Returned(self, f)}
               [] OTHER -> parse_media_attribute(self, split[1], split[2])

Ret(r) == {Returned(r.self, r.res)}

\* parse_line with a fault: the key is trimmed like the value.
parse_line_trimmed(self, line) ==
    LET split == SplitN2(line, "=")
    IN  IF Len(split) < 2 THEN {Panicked(self)}
        ELSE LET key == Trim(split[1])
                 value == Trim(split[2])
             IN  CASE key = <<"v">> ->
                        Ret(set_value(self, "version",
                                      parse_number(Some(value), 1, U32_MAX)))
                   [] key = <<"o">> -> Ret(set_value(self, "origin", Origin_new(value)))
                   [] key = <<"s">> ->
                        Ret(set_value(self, "session_name", parse_str(Some(value), 1)))
                   [] key = <<"t">> -> Ret(set_value(self, "time", Time_new(value)))
                   [] key = <<"c">> ->
                        Ret(set_value(self, "connection", Connection_new(value)))
                   [] key = <<"a">> -> parse_attribute(self, value)
                   [] key = <<"m">> -> parse_media(self, value)
                   [] OTHER -> {Returned(self, Err(UnsupportedLineType(key)))}

\* split[1] on a line without '=' is an index out of bounds: a panic.
parse_line(self, line) ==
    LET split == SplitN2(line, "=")
    IN  IF Len(split) < 2 THEN {Panicked(self)}
        ELSE LET key == split[1]
                 value == Trim(split[2])
             IN  CASE key = <<"v">> ->
                        Ret(set_value(self, "version",
                                      parse_number(Some(value), 1, U32_MAX)))
                   [] key = <<"o">> -> Ret(set_value(self, "origin", Origin_new(value)))
                   [] key = <<"s">> ->
                        Ret(set_value(self, "session_name", parse_str(Some(value), 1)))
                   [] key = <<"t">> -> Ret(set_value(self, "time", Time_new(value)))
                   [] key = <<"c">> ->
                        Ret(set_value(self, "connection", Connection_new(value)))
                   [] key = <<"a">> -> parse_attribute(self, value)
                   [] key = <<"m">> -> parse_media(self, value)
                   [] OTHER -> {Returned(self, Err(UnsupportedLineType(key)))}

(***************************************************************************)
(* Inputs                                                                  *)
(***************************************************************************)
MaxLines == 3

MaxFieldLines == 2

SessionLines ==
    {<<"v", "=", "0">>, <<"v", "=", "1">>, <<"o", "=", "-", " ", "2", "0", "5", "1", "8", " ", "0", " ", "I", "N", " ", "I", "P", "4", " ", "h">>, <<"o", "=", "u", " ", "7", " ", "1", " ", "I", "N", " ", "I", "P", "6", " ", "g">>, <<"s", "=">>,
     <<"s", "=", "n">>, <<"t", "=", "0", " ", "0">>, <<"t", "=", "1", " ", "2">>, <<"c", "=", "I", "N", " ", "I", "P", "4", " ", "h">>, <<"c", "=", "I", "N", " ", "I", "P", "6", " ", "g">>}

CoreLines ==
    {<<"v", "=", "1">>, <<"o", "=", "-", " ", "2", "0", "5", "1", "8", " ", "0", " ", "I", "N", " ", "I", "P", "4", " ", "h">>, <<"s", "=", "n">>, <<"t", "=", "1", " ", "2">>, <<"c", "=", "I", "N", " ", "I", "P", "4", " ", "h">>,
     <<"m", "=", "a", "u", "d", "i", "o", " ", "9", " ", "R", "T", "P", " ", "0", " ", "9", "6">>, <<"a", "=", "s", "e", "n", "d", "r", "e", "c", "v">>, <<"x", "=", "1">>, <<"v">>}

DispatchLines ==
    SessionLines \cup
    {<<"m", "=", "a", "u", "d", "i", "o", " ", "9", " ", "R", "T", "P", " ", "0", " ", "9", "6">>, <<"m", "=", "a", "u", "d", "i", "o">>, <<"a", "=", "s", "e", "n", "d", "r", "e", "c", "v">>, <<"a", "=", "i", "c", "e", "-", "u", "f", "r", "a", "g", ":", "F", "7">>,
     <<"x", "=", "1">>, <<"=", "1">>, <<" ", "v", "=", "0">>, <<"v", "v", "=", "0">>, <<>>, <<"v">>}

MediaLines ==
    CoreLines \cup
    {<<"m", "=", "v", "i", "d", "e", "o", " ", "7", " ", "U", "D", "P", " ", "9", "7">>, <<"m", "=", "a", "u", "d", "i", "o", " ", "x", " ", "R", "T", "P", " ", "0">>, <<"a", "=", "r", "e", "c", "v", "o", "n", "l", "y">>, <<"a", "=">>,
     <<"a", "=", "p", "t", "i", "m", "e", ":", "2", "0">>, <<"a", "=", "r", "t", "p", "m", "a", "p", ":", "0", " ", "P", "C", "M", "U", "/", "8", "0", "0", "0">>,
     <<"a", "=", "c", "a", "n", "d", "i", "d", "a", "t", "e", ":", "0", " ", "1", " ", "U", "D", "P", " ", "2", " ", "h", " ", "9", " ", "t", "y", "p", " ", "h", "o", "s", "t">>, <<"a", "=", "f", "m", "t", "p", ":", "9", "7", " ", "p", "=", "1">>,
     <<"a", "=", "r", "t", "c", "p", "-", "f", "b", ":", "*", " ", "n", "a", "c", "k">>, <<"a", "=", "s", "s", "r", "c", ":", "1", " ", "f", "o", "o", ":", "b", "a", "r">>, <<"a", "=", "f", "o", "o", ":", "1">>, <<"a", "=", "d", "i", "r", "e", "c", "t", "i", "o", "n", ":", "x">>}

IceLines ==
    CoreLines \cup
    {<<"m", "=", "v", "i", "d", "e", "o", " ", "7", " ", "U", "D", "P", " ", "9", "7">>, <<"a", "=", "i", "c", "e", "-", "u", "f", "r", "a", "g", ":", "F", "7">>, <<"a", "=", "i", "c", "e", "-", "u", "f", "r", "a", "g", ":", "b">>, <<"a", "=", "i", "c", "e", "-", "p", "w", "d", ":", "x", "9">>,
     <<"a", "=", "i", "c", "e", "-", "p", "w", "d", ":">>, <<"a", "=", "f", "i", "n", "g", "e", "r", "p", "r", "i", "n", "t", ":", "s", "h", "a", "-", "1", " ", "4", "2", ":", "8", "9">>, <<"a", "=", "f", "i", "n", "g", "e", "r", "p", "r", "i", "n", "t", ":", "m", "d", "5", " ", "0", "7">>,
     <<"a", "=", "f", "i", "n", "g", "e", "r", "p", "r", "i", "n", "t", ":", "s", "h", "a", "-", "1">>, <<"a", "=", "p", "t", "i", "m", "e", ":", "2", "0">>}

AppendLines ==
    CoreLines \cup
    {<<"a", "=", "r", "t", "p", "m", "a", "p", ":", "0", " ", "P", "C", "M", "U", "/", "8", "0", "0", "0">>, <<"a", "=", "c", "a", "n", "d", "i", "d", "a", "t", "e", ":", "0", " ", "1", " ", "U", "D", "P", " ", "2", " ", "h", " ", "9", " ", "t", "y", "p", " ", "h", "o", "s", "t">>,
     <<"a", "=", "f", "m", "t", "p", ":", "9", "7", " ", "p", "=", "1">>, <<"a", "=", "r", "t", "c", "p", "-", "f", "b", ":", "*", " ", "n", "a", "c", "k">>, <<"a", "=", "s", "s", "r", "c", ":", "1", " ", "f", "o", "o", ":", "b", "a", "r">>,
     <<"a", "=", "s", "s", "r", "c", ":", "1", " ", "b", "a", "z">>}

TimeLines ==
    CoreLines \cup
    {<<"t", "=", "0", " ", "0">>, <<"t", "=", "0", " ", "1">>, <<"t", "=", "1", " ", "0">>, <<"t", "=", "0", "0", " ", "0">>, <<"t", "=", "+", "0", " ", "0">>, <<"t", "=", "0">>, <<"t", "=", "x", " ", "0">>}

\* Values of the fixed-arity decoders: complete, cut after each item, and
\* with items that are not numbers.
FieldLines ==
    CoreLines \cup
    {<<"o", "=">>, <<"o", "=", "-">>, <<"o", "=", "-", " ", "1">>, <<"o", "=", "-", " ", "1", " ", "2">>, <<"o", "=", "-", " ", "1", " ", "2", " ", "I", "N">>, <<"o", "=", "-", " ", "1", " ", "2", " ", "I", "N", " ", "I", "P", "4">>,
     <<"o", "=", "-", " ", "x">>, <<"o", "=", "-", " ", "1", " ", "x", " ", "I", "N">>, <<"o", "=", "-", " ", "x", " ", "y", " ", "I", "N", " ", "I", "P", "4", " ", "h">>, <<"o", "=", "-", " ", " ", "1", " ", "2", " ", "I", "N", " ", "I", "P", "4", " ", "h">>,
     <<"c", "=">>, <<"c", "=", "I", "N">>, <<"c", "=", "I", "N", " ", "I", "P", "4">>,
     <<"t", "=">>, <<"t", "=", "1">>, <<"t", "=", "x">>, <<"t", "=", "1", " ", "x">>, <<"t", "=", "x", " ", "y">>, <<"t", "=", "-", "1", " ", "2">>,
     <<"t", "=", "1", "8", "4", "4", "6", "7", "4", "4", "0", "7", "3", "7", "0", "9", "5", "5", "1", "6", "1", "5", " ", "1", "8", "4", "4", "6", "7", "4", "4", "0", "7", "3", "7", "0", "9", "5", "5", "1", "6", "1", "6">>,
     <<"a", "=", "f", "i", "n", "g", "e", "r", "p", "r", "i", "n", "t", ":", "s", "h", "a", "-", "1", " ", "4", "2", ":", "8", "9", ":", "c", "5">>, <<"a", "=", "f", "i", "n", "g", "e", "r", "p", "r", "i", "n", "t", ":", "s", "h", "a", "-", "1">>, <<"a", "=", "f", "i", "n", "g", "e", "r", "p", "r", "i", "n", "t", ":">>,
     <<"m", "=", "a", "u", "d", "i", "o">>, <<"m", "=", "a", "u", "d", "i", "o", " ", "9">>, <<"m", "=", "a", "u", "d", "i", "o", " ", "9", " ", "R", "T", "P">>, <<"m", "=", "a", "u", "d", "i", "o", " ", "x">>,
     <<"m", "=", "a", "u", "d", "i", "o", " ", "x", " ", "R", "T", "P", " ", "0">>}

\* Lines with a second '=' or ':' in the value, and with white space around
\* the value.
SplitLines ==
    CoreLines \cup
    {<<"s", "=", "a", "=", "b">>, <<"s", "=", " ", "a", "=", "b", " ">>, <<"s", "=", " ", "n", " ">>, <<"s", "=", "\t", "n">>, <<"a", "=", " ", "i", "c", "e", "-", "u", "f", "r", "a", "g", ":", "F", "7", " ">>,
     <<"a", "=", "i", "c", "e", "-", "u", "f", "r", "a", "g", ":", "a", ":", "b", "=", "c">>, <<"a", "=", "f", "i", "n", "g", "e", "r", "p", "r", "i", "n", "t", ":", "s", "h", "a", "-", "1", " ", "4", "2", ":", "8", "9", ":", "c", "5">>,
     <<"a", "=", "f", "m", "t", "p", ":", "9", "7", " ", "p", "=", "1", ";", "q", "=", "2">>, <<"a", "=", "f", "m", "t", "p", ":", "9", "7", " ", "p", "=", "1", ";", "q", "=", "2", " ">>, <<"a", "=", " ", "s", "e", "n", "d", "r", "e", "c", "v", " ">>,
     <<"m", "=", " ", "a", "u", "d", "i", "o", " ", "9", " ", "R", "T", "P", " ", "0", " ">>}

\* candidate and rtcp-fb values: with each 7th item, with items after the
\* type, cut before the type; with one, two and no word after the payload.
AttrLines ==
    CoreLines \cup
    {<<"a", "=", "c", "a", "n", "d", "i", "d", "a", "t", "e", ":", "0", " ", "1", " ", "U", "D", "P", " ", "2", " ", "h", " ", "9", " ", "t", "y", "p", " ", "h", "o", "s", "t">>, <<"a", "=", "c", "a", "n", "d", "i", "d", "a", "t", "e", ":", "0", " ", "1", " ", "U", "D", "P", " ", "2", " ", "h", " ", "9", " ", "x", " ", "h", "o", "s", "t">>,
     <<"a", "=", "c", "a", "n", "d", "i", "d", "a", "t", "e", ":", "0", " ", "1", " ", "U", "D", "P", " ", "2", " ", "h", " ", "9", " ", " ", "h", "o", "s", "t">>,
     <<"a", "=", "c", "a", "n", "d", "i", "d", "a", "t", "e", ":", "0", " ", "1", " ", "U", "D", "P", " ", "2", " ", "h", " ", "9", " ", "t", "y", "p", " ", "h", "o", "s", "t", " ", "g", "e", "n", "e", "r", "a", "t", "i", "o", "n", " ", "0">>,
     <<"a", "=", "c", "a", "n", "d", "i", "d", "a", "t", "e", ":", "0", " ", "1", " ", "U", "D", "P", " ", "2", " ", "h", " ", "9", " ", "t", "y", "p", " ", "s", "r", "f", "l", "x", " ", "r", "a", "d", "d", "r", " ", "h">>,
     <<"a", "=", "c", "a", "n", "d", "i", "d", "a", "t", "e", ":", "0", " ", "1", " ", "U", "D", "P", " ", "2", " ", "h", " ", "9", " ", "t", "y", "p">>, <<"a", "=", "c", "a", "n", "d", "i", "d", "a", "t", "e", ":", "0", " ", "1", " ", "U", "D", "P", " ", "2", " ", "h", " ", "9">>,
     <<"a", "=", "c", "a", "n", "d", "i", "d", "a", "t", "e", ":", "0", " ", "1", " ", "U", "D", "P", " ", "2", " ", "h">>, <<"a", "=", "c", "a", "n", "d", "i", "d", "a", "t", "e", ":", "0", " ", "1", " ", "U", "D", "P", " ", "x", " ", "h", " ", "9", " ", "t", "y", "p", " ", "h", "o", "s", "t">>,
     <<"a", "=", "r", "t", "c", "p", "-", "f", "b", ":", "*", " ", "n", "a", "c", "k">>, <<"a", "=", "r", "t", "c", "p", "-", "f", "b", ":", "9", "7", " ", "t", "r", "r", "-", "i", "n", "t", " ", "1", "0", "0">>, <<"a", "=", "r", "t", "c", "p", "-", "f", "b", ":", "9", "7", " ", "n", "a", "c", "k", " ", "r", "p", "s", "i">>,
     <<"a", "=", "r", "t", "c", "p", "-", "f", "b", ":", "0", "9", "7", " ", "n", "a", "c", "k">>, <<"a", "=", "r", "t", "c", "p", "-", "f", "b", ":", "9", "7">>, <<"a", "=", "r", "t", "c", "p", "-", "f", "b", ":">>}

\* ssrc and rtpmap values: the second item with no, one and two separators,
\* with an empty side, cut short, and with an id or rate that is no number.
MapLines ==
    CoreLines \cup
    {<<"a", "=", "s", "s", "r", "c", ":", "1", " ", "f", "o", "o", ":", "b", "a", "r">>, <<"a", "=", "s", "s", "r", "c", ":", "1", " ", "b", "a", "z">>, <<"a", "=", "s", "s", "r", "c", ":", "1", " ", "f", "o", "o", ":">>, <<"a", "=", "s", "s", "r", "c", ":", "1", " ", ":", "b", "a", "r">>,
     <<"a", "=", "s", "s", "r", "c", ":", "1", " ", "f", "o", "o", ":", "b", "a", "r", ":", "b", "a", "z">>, <<"a", "=", "s", "s", "r", "c", ":", "1", " ", "f", "o", "o", ":", "b", "a", "r", " ", "q">>, <<"a", "=", "s", "s", "r", "c", ":", "1", " ", " ", "f", "o", "o">>,
     <<"a", "=", "s", "s", "r", "c", ":", "x", " ", "f", "o", "o", ":", "b", "a", "r">>, <<"a", "=", "s", "s", "r", "c", ":", "-", "1", " ", "f", "o", "o">>, <<"a", "=", "s", "s", "r", "c", ":", "x">>, <<"a", "=", "s", "s", "r", "c", ":", "1">>, <<"a", "=", "s", "s", "r", "c", ":">>,
     <<"a", "=", "r", "t", "p", "m", "a", "p", ":", "0", " ", "P", "C", "M", "U", "/", "8", "0", "0", "0">>, <<"a", "=", "r", "t", "p", "m", "a", "p", ":", "1", "1", "1", " ", "o", "p", "u", "s", "/", "4", "8", "0", "0", "0", "/", "2">>,
     <<"a", "=", "r", "t", "p", "m", "a", "p", ":", "1", "1", "1", " ", "o", "p", "u", "s", "/", "4", "8", "0", "0", "0">>, <<"a", "=", "r", "t", "p", "m", "a", "p", ":", "*", " ", "o", "p", "u", "s", "/", "4", "8", "0", "0", "0">>,
     <<"a", "=", "r", "t", "p", "m", "a", "p", ":", "0", "9", "6", " ", "o", "p", "u", "s", "/", "4", "8", "0", "0", "0">>, <<"a", "=", "r", "t", "p", "m", "a", "p", ":", "0", " ", "P", "C", "M", "U", "/", "8", "0", "0", "0", " ", "x">>, <<"a", "=", "r", "t", "p", "m", "a", "p", ":", "0", " ", "P", "C", "M", "U">>,
     <<"a", "=", "r", "t", "p", "m", "a", "p", ":", "0", " ", "P", "C", "M", "U", "/">>, <<"a", "=", "r", "t", "p", "m", "a", "p", ":", "0", " ", "P", "C", "M", "U", "/", "x">>, <<"a", "=", "r", "t", "p", "m", "a", "p", ":", "0", " ", "/", "8", "0", "0", "0">>,
     <<"a", "=", "r", "t", "p", "m", "a", "p", ":", "0">>, <<"a", "=", "r", "t", "p", "m", "a", "p", ":">>}

\* Numbers at, over and under the range of their field, in every decoder
\* that reads a number; every value has all its items.
WidthLines ==
    CoreLines \cup
    {<<"v", "=", "4", "2", "9", "4", "9", "6", "7", "2", "9", "5">>, <<"v", "=", "4", "2", "9", "4", "9", "6", "7", "2", "9", "6">>, <<"v", "=", "1", "8", "4", "4", "6", "7", "4", "4", "0", "7", "3", "7", "0", "9", "5", "5", "1", "6", "1", "6">>, <<"v", "=", "-", "1">>,
     <<"v", "=", "+", "7">>, <<"v", "=", "0", "0", "7">>, <<"v", "=", "0", "0", "0", "0", "0", "0", "0", "0", "0", "0", "4", "2", "9", "4", "9", "6", "7", "2", "9", "6">>,
     <<"t", "=", "1", "8", "4", "4", "6", "7", "4", "4", "0", "7", "3", "7", "0", "9", "5", "5", "1", "6", "1", "5", " ", "0">>, <<"t", "=", "0", " ", "1", "8", "4", "4", "6", "7", "4", "4", "0", "7", "3", "7", "0", "9", "5", "5", "1", "6", "1", "6">>, <<"t", "=", "-", "1", " ", "0">>,
     <<"o", "=", "-", " ", "1", "8", "4", "4", "6", "7", "4", "4", "0", "7", "3", "7", "0", "9", "5", "5", "1", "6", "1", "6", " ", "0", " ", "I", "N", " ", "I", "P", "4", " ", "h">>, <<"o", "=", "-", " ", "1", " ", "-", "2", " ", "I", "N", " ", "I", "P", "4", " ", "h">>,
     <<"m", "=", "a", "u", "d", "i", "o", " ", "1", "8", "4", "4", "6", "7", "4", "4", "0", "7", "3", "7", "0", "9", "5", "5", "1", "6", "1", "5", " ", "R", "T", "P", " ", "0">>, <<"m", "=", "a", "u", "d", "i", "o", " ", "1", "8", "4", "4", "6", "7", "4", "4", "0", "7", "3", "7", "0", "9", "5", "5", "1", "6", "1", "6", " ", "R", "T", "P", " ", "0">>,
     <<"m", "=", "a", "u", "d", "i", "o", " ", "-", "9", " ", "R", "T", "P", " ", "0">>, <<"m", "=", "a", "u", "d", "i", "o", " ", "6", "5", "5", "3", "6", " ", "R", "T", "P", " ", "0">>,
     <<"a", "=", "p", "t", "i", "m", "e", ":", "1", "8", "4", "4", "6", "7", "4", "4", "0", "7", "3", "7", "0", "9", "5", "5", "1", "6", "1", "5">>, <<"a", "=", "p", "t", "i", "m", "e", ":", "1", "8", "4", "4", "6", "7", "4", "4", "0", "7", "3", "7", "0", "9", "5", "5", "1", "6", "1", "6">>,
     <<"a", "=", "p", "t", "i", "m", "e", ":", "-", "2", "0">>, <<"a", "=", "s", "s", "r", "c", ":", "1", "8", "4", "4", "6", "7", "4", "4", "0", "7", "3", "7", "0", "9", "5", "5", "1", "6", "1", "6", " ", "f", "o", "o">>, <<"a", "=", "s", "s", "r", "c", ":", "4", "2", "9", "4", "9", "6", "7", "2", "9", "6", " ", "f", "o", "o">>,
     <<"a", "=", "f", "m", "t", "p", ":", "1", "8", "4", "4", "6", "7", "4", "4", "0", "7", "3", "7", "0", "9", "5", "5", "1", "6", "1", "6", " ", "x">>, <<"a", "=", "f", "m", "t", "p", ":", "2", "5", "6", " ", "x">>,
     <<"a", "=", "c", "a", "n", "d", "i", "d", "a", "t", "e", ":", "0", " ", "1", " ", "U", "D", "P", " ", "1", "8", "4", "4", "6", "7", "4", "4", "0", "7", "3", "7", "0", "9", "5", "5", "1", "6", "1", "6", " ", "h", " ", "9", " ", "t", "y", "p", " ", "h", "o", "s", "t">>,
     <<"a", "=", "c", "a", "n", "d", "i", "d", "a", "t", "e", ":", "0", " ", "1", " ", "U", "D", "P", " ", "4", "2", "9", "4", "9", "6", "7", "2", "9", "6", " ", "h", " ", "6", "5", "5", "3", "6", " ", "t", "y", "p", " ", "h", "o", "s", "t">>}

EOLs == {<<"\n">>, <<"\r", "\n">>}

RECURSIVE Join(_, _)
Join(ls, eol) ==
    IF Len(ls) = 0 THEN <<>>
    ELSE IF Len(ls) = 1 THEN ls[1]
    ELSE ls[1] \o eol \o Join(Tail(ls), eol)


(***************************************************************************)
(* Sdp::parse as a state machine: one step per iteration of the loop       *)
(***************************************************************************)
VARIABLES
    lines,      \* sdp_message.lines(), the lines of the input in order
    pos,        \* number of lines the loop has taken from the iterator
    sdp,        \* the accumulator `sdp` of parse
    outcome,    \* "running", "ok" (Ok(sdp)), "err" (Err(error)), "panic"
    error       \* the error returned when outcome = "err"

vars == <<lines, pos, sdp, outcome, error>>

\* The input is any text of at most MaxLines lines of a line set, joined by
\* either line terminator.
InitOn(LineSet) ==
    /\ \E k \in 0..MaxLines : \E ls \in [1..k -> LineSet] : \E eol \in EOLs :
           LET sdp_message == Join(ls, eol) IN lines = StrLines(sdp_message)
    /\ pos = 0
    /\ sdp = Sdp_default
    /\ outcome = "running"
    /\ error = NoError

InitMedia == InitOn(MediaLines)
InitIce == InitOn(IceLines)

InitAppend == InitOn(AppendLines)
InitTime == InitOn(TimeLines)

InitUpTo(LineSet, n) ==
    /\ \E k \in 0..n : \E ls \in [1..k -> LineSet] : \E eol \in EOLs :
           LET sdp_message == Join(ls, eol) IN lines = StrLines(sdp_message)
    /\ pos = 0
    /\ sdp = Sdp_default
    /\ outcome = "running"
    /\ error = NoError

InitFields == InitUpTo(FieldLines, MaxFieldLines)

InitSplit == InitUpTo(SplitLines, MaxFieldLines)

InitAttrs == InitUpTo(AttrLines, MaxFieldLines)

InitMaps == InitUpTo(MapLines, MaxFieldLines)

InitWidth == InitUpTo(WidthLines, MaxFieldLines)

HasNext == outcome = "running" /\ pos < Len(lines)
Line == lines[pos + 1]
Key(line) == SplitN2(line, "=")[1]
HasEq(line) == Len(SplitN2(line, "=")) = 2

\* sdp.parse_line(line)?
Step(line) ==
    \E r \in parse_line(sdp, line) :
        /\ pos' = pos + 1
        /\ sdp' = r.self
        /\ outcome' = IF r.panic THEN "panic" ELSE IF r.res.ok THEN "running" ELSE "err"
        /\ error' = IF r.panic THEN NoError ELSE r.res.err
        /\ UNCHANGED lines

LineMalformed == HasNext /\ ~HasEq(Line) /\ Step(Line)
LineVersion == HasNext /\ HasEq(Line) /\ Key(Line) = <<"v">> /\ Step(Line)
LineOrigin == HasNext /\ HasEq(Line) /\ Key(Line) = <<"o">> /\ Step(Line)
LineSessionName == HasNext /\ HasEq(Line) /\ Key(Line) = <<"s">> /\ Step(Line)
LineTime == HasNext /\ HasEq(Line) /\ Key(Line) = <<"t">> /\ Step(Line)
LineConnection == HasNext /\ HasEq(Line) /\ Key(Line) = <<"c">> /\ Step(Line)
LineAttribute == HasNext /\ HasEq(Line) /\ Key(Line) = <<"a">> /\ Step(Line)
LineMedia == HasNext /\ HasEq(Line) /\ Key(Line) = <<"m">> /\ Step(Line)
LineUnsupported ==
    /\ HasNext /\ HasEq(Line)
    /\ Key(Line) \notin {<<"v">>, <<"o">>, <<"s">>, <<"t">>, <<"c">>, <<"a">>, <<"m">>}
    /\ Step(Line)

\* the iterator is exhausted: Ok(sdp)
Return ==
    /\ outcome = "running" /\ pos = Len(lines)
    /\ outcome' = "ok"
    /\ UNCHANGED <<lines, pos, sdp, error>>

Next ==
    \/ LineMalformed
    \/ LineVersion
    \/ LineOrigin
    \/ LineSessionName
    \/ LineTime
    \/ LineConnection
    \/ LineAttribute
    \/ LineMedia
    \/ LineUnsupported
    \/ Return

Init == InitOn(DispatchLines)
Spec == Init /\ [][Next]_vars
SpecMedia == InitMedia /\ [][Next]_vars
SpecIce == InitIce /\ [][Next]_vars
SpecAppend == InitAppend /\ [][Next]_vars
SpecTime == InitTime /\ [][Next]_vars
SpecFields == InitFields /\ [][Next]_vars
SpecSplit == InitSplit /\ [][Next]_vars
SpecAttrs == InitAttrs /\ [][Next]_vars
SpecMaps == InitMaps /\ [][Next]_vars
SpecWidth == InitWidth /\ [][Next]_vars

(***************************************************************************)
(* Vocabulary of the properties: what kind of line a line of the input is  *)
(***************************************************************************)
Value(line) == Trim(SplitN2(line, "=")[2])
IsLine(line, tag) == HasEq(line) /\ Key(line) = tag
IsMLine(line) == IsLine(line, <<"m">>)
IsALine(line) == IsLine(line, <<"a">>)
AttrSplit(line) == SplitN2(Value(line), ":")
IsFlagLine(line) == IsALine(line) /\ Len(AttrSplit(line)) = 1
IsKeyedLine(line) == IsALine(line) /\ Len(AttrSplit(line)) = 2
AttrKey(line) == AttrSplit(line)[1]
AttrValue(line) == AttrSplit(line)[2]
IsKeyLine(line, key) == IsKeyedLine(line) /\ AttrKey(line) = key
SessionKeys == {K_ice_ufrag, K_ice_pwd, K_fingerprint}
MediaKeys == {K_ptime, K_rtpmap, K_candidate, K_fmtp, K_rtcp_fb, K_ssrc}
IsSessionAttrLine(line) == IsKeyedLine(line) /\ AttrKey(line) \in SessionKeys
IsMediaAttrLine(line) ==
    IsFlagLine(line) \/ (IsKeyedLine(line) /\ AttrKey(line) \notin SessionKeys)

\* Lines 1..pos have been taken by the loop; line pos is the last one taken.
Taken == 1..pos
MLineBefore(k) == \E i \in 1..(k - 1) : IsMLine(lines[i])
Succeeded == outcome \in {"running", "ok"}
SessionFields(doc) == [f \in (DOMAIN doc) \ {"media"} |-> doc[f]]
Last(seq) == seq[Len(seq)]
\* The largest index of Taken whose line has the property, 0 when none has.
LastTaken(P(_)) ==
    IF \E i \in Taken : P(lines[i])
    THEN CHOOSE i \in Taken : P(lines[i]) /\ \A j \in (i + 1)..pos : ~P(lines[j])
    ELSE 0

(***************************************************************************)
(* C1. A media-scoped attribute line processed while no m line has been    *)
(* processed makes parse return the AttributeBeforeMedia error, and ends   *)
(* in no other outcome.  (Fails: `count - 1` with count = 0 panics in a    *)
(* build with overflow checks.)                                            *)
(***************************************************************************)
C1_AttributeBeforeMedia ==
    (pos >= 1 /\ IsMediaAttrLine(lines[pos]) /\ ~MLineBefore(pos))
        => (outcome = "err" /\ error = AttributeBeforeMedia)

(***************************************************************************)
(* C2. A line fails with a MalformedLine error, returned by parse as an    *)
(* error value, exactly when it contains no '='.  (Fails: split[1] on a    *)
(* line without '=' panics.)                                               *)
(***************************************************************************)
C2_MalformedLine ==
    pos >= 1 =>
        (~HasEq(lines[pos]) <=> (outcome = "err" /\ error.kind = "MalformedLine"))

(***************************************************************************)
(* C3. After an m line, a successfully processed media-scoped attribute    *)
(* line changes only the last MediaBlock: the earlier blocks, the number   *)
(* of blocks and every session-level field stay as they were.              *)
(***************************************************************************)
C3_OnlyCurrentBlock ==
    [][(HasNext /\ IsMediaAttrLine(Line) /\ MLineBefore(pos + 1)
          /\ outcome' = "running")
        => /\ Len(sdp'.media) = Len(sdp.media)
           /\ \A i \in 1..(Len(sdp.media) - 1) : sdp'.media[i] = sdp.media[i]
           /\ SessionFields(sdp') = SessionFields(sdp)]_vars

C3_Witness ==
    /\ pos = 3 /\ outcome = "running"
    /\ IsMLine(lines[1]) /\ IsMLine(lines[2])
    /\ IsKeyLine(lines[3], K_rtpmap)
    /\ Len(sdp.media) = 2
    /\ sdp.media[1].rtpmap = <<>>
    /\ Len(sdp.media[2].rtpmap) = 1

(***************************************************************************)
(* C4. A well-formed m line increases the open-media count and the number  *)
(* of blocks by one each; the appended block carries the decoded type,     *)
(* port, protocol and payloads (the first four items of the value) and     *)
(* every accumulator empty; the blocks before it are unchanged.            *)
(***************************************************************************)
C4_MediaLineAppends ==
    [][(HasNext /\ IsMLine(Line) /\ outcome' = "running")
        => LET items == Split(Value(Line), " ")
               n == Len(sdp.media)
           IN  /\ unwrap_or(sdp'.current_media, 0) = unwrap_or(sdp.current_media, 0) + 1
               /\ Len(sdp'.media) = n + 1
               /\ SubSeq(sdp'.media, 1, n) = sdp.media
               /\ Len(items) >= 4
               /\ sdp'.media[n + 1] =
                     [type |-> items[1], port |-> unwrap_or(FromStr(items[2], U64_MAX), <<>>),
                      protocol |-> items[3], payloads |-> items[4],
                      candidates |-> <<>>, direction |-> <<>>, fmtp |-> <<>>,
                      ptime |-> Zero, rtpmap |-> <<>>, rtc_fb |-> <<>>,
                      ssrc |-> <<>>]]_vars

C4_Witness ==
    /\ pos = 3 /\ outcome = "running"
    /\ IsMLine(lines[1]) /\ IsFlagLine(lines[2]) /\ IsMLine(lines[3])
    /\ sdp.current_media = Some(2)
    /\ Len(sdp.media) = 2
    /\ sdp.media[1].direction # <<>>
    /\ sdp.media[2].direction = <<>>
    /\ sdp.media[2].type = <<"v", "i", "d", "e", "o">>
(***************************************************************************)
(* C5. If line k is the first line whose processing fails, parse returns   *)
(* exactly the error of line k and processes no later line; a Document is  *)
(* returned only when every line was processed successfully.  (Fails: the  *)
(* failures of C1 and C2 are panics, for which parse returns no error.)    *)
(***************************************************************************)
\* The document before line k, when the lines before it succeeded.
RECURSIVE DocBefore(_)
DocBefore(k) ==
    IF k <= 1 THEN Sdp_default
    ELSE (CHOOSE r \in parse_line(DocBefore(k - 1), lines[k - 1]) : ~r.panic).self

LineFails(k) ==
    \E r \in parse_line(DocBefore(k), lines[k]) : r.panic \/ ~r.res.ok

LineErrors(k) ==
    {r.res.err : r \in {x \in parse_line(DocBefore(k), lines[k]) :
                            ~x.panic /\ ~x.res.ok}}

C5_FailFast ==
    /\ (pos >= 1 /\ LineFails(pos)) => (outcome = "err" /\ error \in LineErrors(pos))
    /\ outcome = "err" => (pos >= 1 /\ LineFails(pos))
    /\ outcome = "ok" =>
          (pos = Len(lines) /\ \A k \in 1..Len(lines) : ~LineFails(k))

(***************************************************************************)
(* C6. An ice-ufrag, ice-pwd or fingerprint line is accepted wherever it   *)
(* stands, before or after m lines: it overwrites its session-level field  *)
(* (a fingerprint line when its value has the two items of a fingerprint,  *)
(* and otherwise fails with MissingField only), the field holds the value  *)
(* of the last such line, and no MediaBlock nor the open-media count       *)
(* changes.                                                                *)
(***************************************************************************)
C6_Step ==
    (HasNext /\ IsSessionAttrLine(Line)) =>
        LET key == AttrKey(Line)
            text == AttrValue(Line)
            items == Split(text, " ")
        IN  /\ sdp'.media = sdp.media
            /\ sdp'.current_media = sdp.current_media
            /\ key = K_ice_ufrag =>
                  (outcome' = "running" /\ sdp' = [sdp EXCEPT !.ice_ufrag = text])
            /\ key = K_ice_pwd =>
                  (outcome' = "running" /\ sdp' = [sdp EXCEPT !.ice_pwd = text])
            /\ key = K_fingerprint =>
                  IF Len(items) >= 2
                  THEN /\ outcome' = "running"
                       /\ sdp' = [sdp EXCEPT !.fingerprint =
                                      [type |-> items[1], hash |-> items[2]]]
                  ELSE outcome' = "err" /\ error' = MissingField(2)

C6_Final ==
    Succeeded =>
        LET u == LastTaken(LAMBDA l : IsKeyLine(l, K_ice_ufrag))
            p == LastTaken(LAMBDA l : IsKeyLine(l, K_ice_pwd))
            f == LastTaken(LAMBDA l : IsKeyLine(l, K_fingerprint))
        IN  /\ sdp.ice_ufrag = IF u = 0 THEN <<>> ELSE AttrValue(lines[u])
            /\ sdp.ice_pwd = IF p = 0 THEN <<>> ELSE AttrValue(lines[p])
            /\ sdp.fingerprint =
                  IF f = 0 THEN Fingerprint_default
                  ELSE LET items == Split(AttrValue(lines[f]), " ")
                       IN  [type |-> items[1], hash |-> items[2]]

C6_SessionAttributes == []C6_Final /\ [][C6_Step]_vars

C6_Witness ==
    /\ pos = 3 /\ outcome = "running"
    /\ IsKeyLine(lines[1], K_ice_ufrag) /\ IsMLine(lines[2])
    /\ IsKeyLine(lines[3], K_ice_ufrag)
    /\ AttrValue(lines[1]) # AttrValue(lines[3])
    /\ sdp.ice_ufrag = AttrValue(lines[3])
    /\ Len(sdp.media) = 1

(***************************************************************************)
(* C7. After an m line, an attribute line whose value has no ':' always    *)
(* succeeds and leaves the direction of the last MediaBlock equal to the   *)
(* flag text, whatever the text; so of several such lines the last wins.   *)
(***************************************************************************)
C7_FlagSetsDirection ==
    (pos >= 1 /\ IsFlagLine(lines[pos]) /\ MLineBefore(pos))
        => /\ Succeeded
           /\ sdp.media # <<>>
           /\ Last(sdp.media).direction = Value(lines[pos])

C7_Witness ==
    /\ pos = 3 /\ outcome = "running"
    /\ IsMLine(lines[1]) /\ IsFlagLine(lines[2]) /\ IsFlagLine(lines[3])
    /\ Value(lines[2]) # Value(lines[3])
    /\ sdp.media[1].direction = <<"r", "e", "c", "v", "o", "n", "l", "y">>

(***************************************************************************)
(* C8. After an m line, a line 'a=key:value' whose key is none of          *)
(* ice-ufrag, ice-pwd, fingerprint, ptime, rtpmap, candidate, fmtp,        *)
(* rtcp-fb, ssrc fails with UnsupportedMediaAttribute(key).  (Fails: the   *)
(* key "direction" is accepted and stored as the block's direction.)       *)
(***************************************************************************)
C8_UnsupportedKey ==
    (pos >= 1 /\ IsKeyedLine(lines[pos]) /\ MLineBefore(pos)
       /\ AttrKey(lines[pos]) \notin SessionKeys \cup MediaKeys)
        => /\ outcome = "err"
           /\ error = UnsupportedMediaAttribute(AttrKey(lines[pos]))

(***************************************************************************)
(* C9. A line whose tag, the text before the first '=', is not exactly one *)
(* of v, o, s, t, c, m, a is rejected with UnsupportedLineType, whatever   *)
(* its value and whatever was processed before it.                         *)
(***************************************************************************)
Tags == {<<"v">>, <<"o">>, <<"s">>, <<"t">>, <<"c">>, <<"m">>, <<"a">>}

C9_UnsupportedLineType ==
    (pos >= 1 /\ HasEq(lines[pos]) /\ Key(lines[pos]) \notin Tags)
        => (outcome = "err" /\ error = UnsupportedLineType(Key(lines[pos])))

C9_Witness ==
    /\ pos = 2 /\ outcome = "err"
    /\ IsMLine(lines[1])
    /\ lines[2] = <<" ", "v", "=", "0">>
    /\ error = UnsupportedLineType(<<" ", "v">>)
    /\ Len(sdp.media) = 1

(***************************************************************************)
(* C10. For each of the tags v, o, s, t, c the document holds the value    *)
(* decoded from the last line with that tag, wherever the line stands      *)
(* relative to m lines; processing such a line changes no MediaBlock.      *)
(***************************************************************************)
C10_Final ==
    Succeeded =>
        LET v == LastTaken(LAMBDA l : IsLine(l, <<"v">>))
            o == LastTaken(LAMBDA l : IsLine(l, <<"o">>))
            n == LastTaken(LAMBDA l : IsLine(l, <<"s">>))
            t == LastTaken(LAMBDA l : IsLine(l, <<"t">>))
            c == LastTaken(LAMBDA l : IsLine(l, <<"c">>))
        IN  /\ sdp.version = IF v = 0 THEN Zero
                             ELSE parse_number(Some(Value(lines[v])), 1, U32_MAX).val
            /\ sdp.origin = IF o = 0 THEN Origin_default
                            ELSE Origin_new(Value(lines[o])).val
            /\ sdp.session_name = IF n = 0 THEN <<>> ELSE Value(lines[n])
            /\ sdp.time = IF t = 0 THEN Time_default ELSE Time_new(Value(lines[t])).val
            /\ sdp.connection = IF c = 0 THEN Connection_default
                                ELSE Connection_new(Value(lines[c])).val

C10_Step ==
    (HasNext /\ HasEq(Line) /\ Key(Line) \in {<<"v">>, <<"o">>, <<"s">>, <<"t">>, <<"c">>})
        => (sdp'.media = sdp.media /\ sdp'.current_media = sdp.current_media)

C10_SessionLastWins == []C10_Final /\ [][C10_Step]_vars

C10_Witness ==
    /\ pos = 3 /\ outcome = "ok"
    /\ IsLine(lines[1], <<"t">>) /\ IsMLine(lines[2]) /\ IsLine(lines[3], <<"t">>)
    /\ lines[1] # lines[3]
    /\ sdp.time = [start_time |-> <<"1">>, stop_time |-> <<"2">>, bounded |-> TRUE]
    /\ Len(sdp.media) = 1
SequenceOf(key) ==
    CASE key = K_rtpmap -> "rtpmap"
      [] key = K_candidate -> "candidates"
      [] key = K_fmtp -> "fmtp"
      [] key = K_rtcp_fb -> "rtc_fb"
      [] key = K_ssrc -> "ssrc"

AppendKeys == {K_rtpmap, K_candidate, K_fmtp, K_rtcp_fb, K_ssrc}

(***************************************************************************)
(* C11. A successfully processed rtpmap, candidate, fmtp, rtcp-fb or ssrc  *)
(* line appends exactly one record at the end of its sequence of the       *)
(* current MediaBlock; the records already there and every other field of  *)
(* the block stay as they were, so records are never merged: two ssrc      *)
(* lines with the same id give two entries.                                *)
(***************************************************************************)
C11_AppendsOneRecord ==
    [][(HasNext /\ IsKeyedLine(Line) /\ AttrKey(Line) \in AppendKeys
          /\ outcome' = "running")
        => LET f == SequenceOf(AttrKey(Line))
               old == Last(sdp.media)
               new == Last(sdp'.media)
           IN  /\ Len(sdp'.media) = Len(sdp.media)
               /\ Len(new[f]) = Len(old[f]) + 1
               /\ SubSeq(new[f], 1, Len(old[f])) = old[f]
               /\ \A g \in (DOMAIN old) \ {f} : new[g] = old[g]]_vars

C11_Witness ==
    /\ pos = 3 /\ outcome = "running"
    /\ IsMLine(lines[1])
    /\ IsKeyLine(lines[2], K_ssrc) /\ IsKeyLine(lines[3], K_ssrc)
    /\ Len(sdp.media[1].ssrc) = 2
    /\ sdp.media[1].ssrc[1].id = sdp.media[1].ssrc[2].id

(***************************************************************************)
(* C12. In every state of the document, the default one and the one after  *)
(* any sequence of t lines, bounded = ~(start = 0 /\ stop = 0).            *)
(***************************************************************************)
C12_BoundedIsDerived ==
    sdp.time.bounded = ~(sdp.time.start_time = Zero /\ sdp.time.stop_time = Zero)

C12_Witness ==
    /\ pos = 3 /\ outcome = "running"
    /\ lines = <<<<"t", "=", "0", " ", "1">>, <<"t", "=", "1", " ", "0">>, <<"t", "=", "0", "0", " ", "0">>>>
    /\ sdp.time = [start_time |-> Zero, stop_time |-> Zero, bounded |-> FALSE]
\* The payload list of an m line: its value from the fourth token to the end.
PayloadList(line) ==
    LET split == Split(Value(line), " ")
    IN  Join(SubSeq(split, 4, Len(split)), <<" ">>)

(***************************************************************************)
(* C14. After a taken m line 'type port protocol p1 ... pn' the payloads   *)
(* field of the new MediaBlock holds the whole list 'p1 ... pn' as one     *)
(* string, not only p1.                                                    *)
(***************************************************************************)
C14_WholePayloadList ==
    (pos >= 1 /\ Succeeded /\ IsMLine(lines[pos]))
    => Last(sdp.media).payloads = PayloadList(lines[pos])

(***************************************************************************)
(* C15. parse takes each line at most once, in order, and ends in one of   *)
(* two outcomes: the document after the last line, or an error at the      *)
(* first failing line. No state holds a third outcome.                     *)
(***************************************************************************)
C15_TwoOutcomes ==
    /\ pos \in 0..Len(lines)
    /\ outcome \in {"running", "ok", "err"}
    /\ outcome = "ok" => pos = Len(lines) /\ error = NoError
    /\ outcome = "err" => pos >= 1 /\ error # NoError

(***************************************************************************)
(* C16. In every state the open-media cursor, read as 0 when absent, is    *)
(* the number of MediaBlocks of the media sequence, the state after an m   *)
(* line whose header fails to decode included.                             *)
(***************************************************************************)
C16_CursorIsLength ==
    unwrap_or(sdp.current_media, 0) = Len(sdp.media)
\* What a decoder of `arity` items, those at the positions `numeric` being
\* u64 numbers, reports for the items `split`: the failure of the lowest
\* position that is missing or not a number, NoError when there is none.
FirstFailure(split, arity, numeric) ==
    LET bad == {i \in 1..arity :
                    \/ i > Len(split)
                    \/ i \in numeric /\ ~is_some(FromStr(split[i], U64_MAX))}
    IN  IF bad = {} THEN NoError
        ELSE LET i == CHOOSE i \in bad : \A j \in bad : i <= j
             IN  IF i > Len(split) THEN MissingField(i)
                 ELSE InvalidNumber(split[i])

IsFixedArityLine(line) ==
    \/ \E tag \in {<<"o">>, <<"c">>, <<"t">>, <<"m">>} : IsLine(line, tag)
    \/ IsKeyLine(line, K_fingerprint)

ExpectedFailure(line) ==
    CASE IsLine(line, <<"o">>) -> FirstFailure(Split(Value(line), " "), 6, {2, 3})
      [] IsLine(line, <<"c">>) -> FirstFailure(Split(Value(line), " "), 3, {})
      [] IsLine(line, <<"t">>) -> FirstFailure(Split(Value(line), " "), 2, {1, 2})
      [] IsLine(line, <<"m">>) -> FirstFailure(Split(Value(line), " "), 4, {2})
      [] IsKeyLine(line, K_fingerprint) ->
             FirstFailure(Split(AttrValue(line), " "), 2, {})

(***************************************************************************)
(* C17. The decoders of origin (6 items), connection (3), timing (2),      *)
(* fingerprint (2) and the media header (4) check their items from left to *)
(* right: the line fails with the error of the lowest failing position,    *)
(* MissingField(k+1) for a value of only k items and InvalidNumber of the  *)
(* item for an item that is not a number at a numeric position, and is     *)
(* taken when no position fails.                                           *)
(***************************************************************************)
C17_LowestFailingPosition ==
    (pos >= 1 /\ IsFixedArityLine(lines[pos]))
    => LET e == ExpectedFailure(lines[pos])
       IN  IF e = NoError THEN Succeeded
           ELSE outcome = "err" /\ error = e

C17_Witness ==
    /\ pos = 2 /\ outcome = "err"
    /\ lines = <<<<"c", "=", "I", "N", " ", "I", "P", "4", " ", "h">>, <<"o", "=", "-", " ", "x">>>>
    /\ error = InvalidNumber(<<"x">>)
\* The text of s before and after its first d (s has a d).
FirstAt(s, d) == CHOOSE i \in 1..Len(s) : s[i] = d /\ \A j \in 1..(i - 1) : s[j] # d
BeforeFirst(s, d) == SubSeq(s, 1, FirstAt(s, d) - 1)
AfterFirst(s, d) == SubSeq(s, FirstAt(s, d) + 1, Len(s))
Has(s, d) == \E i \in 1..Len(s) : s[i] = d
\* s without the white space at its two ends.
Trimmed(s) ==
    LET inner == {i \in 1..Len(s) : s[i] \notin WhiteSpace}
    IN  IF inner = {} THEN <<>>
        ELSE SubSeq(s, CHOOSE i \in inner : \A j \in inner : i <= j,
                       CHOOSE i \in inner : \A j \in inner : j <= i)
StartsWith(s, prefix) ==
    Len(s) >= Len(prefix) /\ SubSeq(s, 1, Len(prefix)) = prefix
Drop(s, n) == SubSeq(s, n + 1, Len(s))

(***************************************************************************)
(* C18. A line is cut only at its first '=' and an attribute only at its   *)
(* first ':'; the text after the first '=' is trimmed and everything else  *)
(* of it reaches the field unchanged: the session name is the trimmed      *)
(* text, ice-ufrag the text after the first ':', a fingerprint's type and  *)
(* hash the two items of that text (the hash with its ':'), an fmtp        *)
(* configuration the text after the payload (with its '='), a flag the     *)
(* whole trimmed text. White space around the value changes nothing.       *)
(***************************************************************************)
C18_SplitAtFirst ==
    (pos >= 1 /\ Has(lines[pos], "="))
    => LET key == BeforeFirst(lines[pos], "=")
           text == Trimmed(AfterFirst(lines[pos], "="))
           block == Last(sdp.media)
       IN  /\ key = <<"s">> => Succeeded /\ sdp.session_name = text
           /\ (key = <<"a">> /\ StartsWith(text, <<"i", "c", "e", "-", "u", "f", "r", "a", "g", ":">>))
              => Succeeded /\ sdp.ice_ufrag = Drop(text, 10)
           /\ (key = <<"a">> /\ StartsWith(text, <<"f", "i", "n", "g", "e", "r", "p", "r", "i", "n", "t", ":", "s", "h", "a", "-", "1", " ">>))
              => /\ Succeeded
                 /\ sdp.fingerprint = [type |-> <<"s", "h", "a", "-", "1">>, hash |-> Drop(text, 18)]
           /\ (key = <<"a">> /\ StartsWith(text, <<"f", "m", "t", "p", ":", "9", "7", " ">>) /\ sdp.media # <<>>)
              => /\ Succeeded
                 /\ Last(block.fmtp) = [payload |-> <<"9", "7">>, config |-> Drop(text, 8)]
           /\ (key = <<"a">> /\ ~Has(text, ":") /\ sdp.media # <<>>)
              => Succeeded /\ block.direction = text
           /\ (key = <<"m">> /\ Succeeded
                 /\ Cardinality({i \in 1..Len(text) : text[i] = " "}) = 3)
              => block.type \o <<" ">> \o block.port \o <<" ">> \o block.protocol
                     \o <<" ">> \o block.payloads
                 = text

C18_Witness ==
    /\ pos = 2 /\ outcome = "running"
    /\ lines = <<<<"m", "=", " ", "a", "u", "d", "i", "o", " ", "9", " ", "R", "T", "P", " ", "0", " ">>, <<"a", "=", "f", "m", "t", "p", ":", "9", "7", " ", "p", "=", "1", ";", "q", "=", "2", " ">>>>
    /\ sdp.media[1].type = <<"a", "u", "d", "i", "o">>
    /\ sdp.media[1].fmtp = <<[payload |-> <<"9", "7">>, config |-> <<"p", "=", "1", ";", "q", "=", "2">>]>>
\* The u64 number an item stands for.
Number(item) == FromStr(item, U64_MAX)[1]
\* A candidate line after an m line whose first six items decode.
IsCandidateLine(k) ==
    /\ k >= 1 /\ MLineBefore(k) /\ IsKeyLine(lines[k], K_candidate)
    /\ FirstFailure(Split(AttrValue(lines[k]), " "), 6, {1, 4, 6}) = NoError
IsRtcpFbLine(k) == k >= 1 /\ MLineBefore(k) /\ IsKeyLine(lines[k], K_rtcp_fb)

(***************************************************************************)
(* C19. A candidate value drops its 7th item unread and takes the type     *)
(* from the 8th: the Candidate appended is made of items 1 to 6 and 8,     *)
(* whatever the 7th is and whatever follows the 8th; a value that ends     *)
(* before the 8th item fails with MissingField.                            *)
(***************************************************************************)
C19_CandidateSkipsOne ==
    IsCandidateLine(pos)
    => LET split == Split(AttrValue(lines[pos]), " ")
       IN  IF Len(split) >= 8
           THEN /\ Succeeded
                /\ Last(Last(sdp.media).candidates) =
                       [component |-> Number(split[1]), foundation |-> split[2],
                        transport |-> split[3], priority |-> Number(split[4]),
                        ip |-> split[5], port |-> Number(split[6]),
                        type |-> split[8]]
           ELSE outcome = "err" /\ error.kind = "MissingField"

C19_Witness ==
    /\ pos = 2 /\ outcome = "running"
    /\ IsMLine(lines[1])
    /\ lines[2] = <<"a", "=", "c", "a", "n", "d", "i", "d", "a", "t", "e", ":", "0", " ", "1", " ", "U", "D", "P", " ", "2", " ", "h", " ", "9", " ", "x", " ", "h", "o", "s", "t">>
    /\ sdp.media[1].candidates[1].type = <<"h", "o", "s", "t">>

(***************************************************************************)
(* C20. An rtcp-fb value 'payload w1 ... wn' with n >= 1 appends the       *)
(* FeedbackRule of payload, kept as the text it is, and type w1; the words *)
(* after w1 are dropped; a value with no word after the payload fails with *)
(* MissingField.                                                           *)
(***************************************************************************)
C20_FeedbackFirstWord ==
    IsRtcpFbLine(pos)
    => LET split == Split(AttrValue(lines[pos]), " ")
       IN  IF Len(split) >= 2
           THEN /\ Succeeded
                /\ Last(Last(sdp.media).rtc_fb) =
                       [payload |-> split[1], type |-> split[2]]
           ELSE outcome = "err" /\ error = MissingField(2)

C20_Witness ==
    /\ pos = 2 /\ outcome = "running"
    /\ IsMLine(lines[1])
    /\ lines[2] = <<"a", "=", "r", "t", "c", "p", "-", "f", "b", ":", "9", "7", " ", "t", "r", "r", "-", "i", "n", "t", " ", "1", "0", "0">>
    /\ sdp.media[1].rtc_fb = <<[payload |-> <<"9", "7">>, type |-> <<"t", "r", "r", "-", "i", "n", "t">>]>>
\* The text of s up to its first d, all of s when it has none.
UpToFirst(s, d) == IF Has(s, d) THEN BeforeFirst(s, d) ELSE s
IsSsrcLine(k) == k >= 1 /\ MLineBefore(k) /\ IsKeyLine(lines[k], K_ssrc)
IsRtpmapLine(k) == k >= 1 /\ MLineBefore(k) /\ IsKeyLine(lines[k], K_rtpmap)

(***************************************************************************)
(* C21. An ssrc value 'id token' appends a SynchronizationSource whose     *)
(* value is present exactly when the token holds a ':': 'name:val' gives   *)
(* attribute name and value val, a token without ':' gives attribute token *)
(* and no value. An id that is no unsigned number fails with               *)
(* InvalidNumber, a value with no second item with MissingField.           *)
(***************************************************************************)
C21_SsrcOptionalValue ==
    IsSsrcLine(pos)
    => LET split == Split(AttrValue(lines[pos]), " ")
           id == split[1]
           token == split[2]
           new == Last(Last(sdp.media).ssrc)
       IN  IF ~is_some(FromStr(id, U64_MAX))
           THEN outcome = "err" /\ error = InvalidNumber(id)
           ELSE IF Len(split) < 2
           THEN outcome = "err" /\ error = MissingField(2)
           ELSE /\ Succeeded
                /\ new.id = Number(id)
                /\ is_some(new.value) <=> Has(token, ":")
                /\ new.attribute = UpToFirst(token, ":")
                /\ Has(token, ":")
                   => new.value = Some(UpToFirst(AfterFirst(token, ":"), ":"))

C21_Witness ==
    /\ pos = 2 /\ outcome = "running"
    /\ IsMLine(lines[1])
    /\ lines[2] = <<"a", "=", "s", "s", "r", "c", ":", "1", " ", "b", "a", "z">>
    /\ sdp.media[1].ssrc = <<[id |-> <<"1">>, attribute |-> <<"b", "a", "z">>, value |-> None]>>

(***************************************************************************)
(* C23. An rtpmap value 'payload codec/rate' or 'payload                   *)
(* codec/rate/channels' appends the CodecMapping of payload, kept as the   *)
(* text it is, codec, and rate as a number; what follows the rate changes  *)
(* nothing, and a second item without '/' fails with MissingField.         *)
(***************************************************************************)
C23_RtpmapCodecRate ==
    IsRtpmapLine(pos)
    => LET split == Split(AttrValue(lines[pos]), " ")
           token == split[2]
           rate == UpToFirst(AfterFirst(token, "/"), "/")
       IN  IF Len(split) < 2
           THEN outcome = "err" /\ error = MissingField(2)
           ELSE IF ~Has(token, "/")
           THEN outcome = "err" /\ error = MissingField(3)
           ELSE IF ~is_some(FromStr(rate, U64_MAX))
           THEN outcome = "err" /\ error = InvalidNumber(rate)
           ELSE /\ Succeeded
                /\ Last(Last(sdp.media).rtpmap) =
                       [codec |-> BeforeFirst(token, "/"), payload |-> split[1],
                        rate |-> Number(rate)]

C23_Witness ==
    /\ pos = 2 /\ outcome = "running"
    /\ IsMLine(lines[1])
    /\ lines[2] = <<"a", "=", "r", "t", "p", "m", "a", "p", ":", "1", "1", "1", " ", "o", "p", "u", "s", "/", "4", "8", "0", "0", "0", "/", "2">>
    /\ sdp.media[1].rtpmap =
           <<[codec |-> <<"o", "p", "u", "s">>, payload |-> <<"1", "1", "1">>, rate |-> <<"4", "8", "0", "0", "0">>]>>
\* The digits of an item, and whether the item is an unsigned number: an
\* optional '+' and one or more digits.
DigitsOf(item) == IF StartsWith(item, <<"+">>) THEN Drop(item, 1) ELSE item
IsUnsigned(item) ==
    /\ DigitsOf(item) # <<>>
    /\ \A i \in 1..Len(DigitsOf(item)) : IsDigit(DigitsOf(item)[i])
\* The number an unsigned item stands for, as a numeral without leading zeros.
Canonical(item) ==
    LET ds == DigitsOf(item)
        significant == {i \in 1..Len(ds) : ds[i] # "0"}
    IN  IF significant = {} THEN Zero
        ELSE Drop(ds, (CHOOSE i \in significant : \A j \in significant : i <= j) - 1)
\* The numeral n is greater than the numeral max.
Exceeds(n, max) ==
    \/ Len(n) > Len(max)
    \/ /\ Len(n) = Len(max)
       /\ \E i \in 1..Len(n) :
              /\ DigitVal(n[i]) > DigitVal(max[i])
              /\ \A j \in 1..(i - 1) : n[j] = max[j]
FitsWidth(item, max) == IsUnsigned(item) /\ ~Exceeds(Canonical(item), max)

\* The numeric items a line holds, in the order they are decoded, each with
\* the largest value of its field; and the fields they are stored in.
WidthItem(item, max) == [item |-> item, max |-> max]
WidthItems(line) ==
    LET split == Split(Value(line), " ")
        items == IF IsKeyedLine(line) THEN Split(AttrValue(line), " ") ELSE <<>>
    IN  CASE IsLine(line, <<"v">>) -> <<WidthItem(Value(line), U32_MAX)>>
          [] IsLine(line, <<"t">>) ->
                 <<WidthItem(split[1], U64_MAX), WidthItem(split[2], U64_MAX)>>
          [] IsLine(line, <<"o">>) ->
                 <<WidthItem(split[2], U64_MAX), WidthItem(split[3], U64_MAX)>>
          [] IsLine(line, <<"m">>) -> <<WidthItem(split[2], U64_MAX)>>
          [] IsKeyLine(line, K_ptime) -> <<WidthItem(AttrValue(line), U64_MAX)>>
          [] IsKeyLine(line, K_ssrc) -> <<WidthItem(items[1], U64_MAX)>>
          [] IsKeyLine(line, K_fmtp) -> <<WidthItem(items[1], U64_MAX)>>
          [] IsKeyLine(line, K_candidate) ->
                 <<WidthItem(items[1], U64_MAX), WidthItem(items[4], U64_MAX),
                   WidthItem(items[6], U64_MAX)>>
WidthFields(doc, line) ==
    LET block == Last(doc.media)
    IN  CASE IsLine(line, <<"v">>) -> <<doc.version>>
          [] IsLine(line, <<"t">>) -> <<doc.time.start_time, doc.time.stop_time>>
          [] IsLine(line, <<"o">>) ->
                 <<doc.origin.session_id, doc.origin.session_version>>
          [] IsLine(line, <<"m">>) -> <<block.port>>
          [] IsKeyLine(line, K_ptime) -> <<block.ptime>>
          [] IsKeyLine(line, K_ssrc) -> <<Last(block.ssrc).id>>
          [] IsKeyLine(line, K_fmtp) -> <<Last(block.fmtp).payload>>
          [] IsKeyLine(line, K_candidate) ->
                 <<Last(block.candidates).component,
                   Last(block.candidates).priority, Last(block.candidates).port>>
\* A line that reads numbers and has all the items of its decoder; an
\* attribute of a MediaBlock counts after an m line only.
IsWidthLine(k) ==
    /\ k >= 1
    /\ LET line == lines[k]
           arity(n) == Len(Split(Value(line), " ")) >= n
           items(n) == MLineBefore(k) /\ Len(Split(AttrValue(line), " ")) >= n
       IN  \/ IsLine(line, <<"v">>)
           \/ IsLine(line, <<"t">>) /\ arity(2)
           \/ IsLine(line, <<"o">>) /\ arity(6)
           \/ IsLine(line, <<"m">>) /\ arity(4)
           \/ IsKeyLine(line, K_ptime) /\ items(1)
           \/ IsKeyLine(line, K_ssrc) /\ items(2)
           \/ IsKeyLine(line, K_fmtp) /\ items(2)
           \/ IsKeyLine(line, K_candidate) /\ items(8)

(***************************************************************************)
(* C22. A numeric item that does not fit its field (64 bits without sign   *)
(* for ports, times, ids, priorities and payload numbers, 32 bits for the  *)
(* version of a v line) or that is negative makes the line fail with       *)
(* InvalidNumber of that item; a field only ever holds the very number its *)
(* item stands for, never one wrapped or cut to the width.                 *)
(***************************************************************************)
C22_NoWrapAround ==
    IsWidthLine(pos)
    => LET items == WidthItems(lines[pos])
           bad == {i \in 1..Len(items) : ~FitsWidth(items[i].item, items[i].max)}
       IN  IF bad = {}
           THEN /\ Succeeded
                /\ WidthFields(sdp, lines[pos])
                       = [i \in 1..Len(items) |-> Canonical(items[i].item)]
           ELSE /\ outcome = "err"
                /\ error = InvalidNumber(
                               items[CHOOSE i \in bad : \A j \in bad : i <= j].item)

C22_Witness ==
    /\ pos = 2 /\ outcome = "err"
    /\ lines = <<<<"t", "=", "1", "8", "4", "4", "6", "7", "4", "4", "0", "7", "3", "7", "0", "9", "5", "5", "1", "6", "1", "5", " ", "0">>, <<"v", "=", "4", "2", "9", "4", "9", "6", "7", "2", "9", "6">>>>
    /\ sdp.time.start_time = U64_MAX
    /\ error = InvalidNumber(<<"4", "2", "9", "4", "9", "6", "7", "2", "9", "6">>)
====
